---- MODULE Spec2Model ----
(***************************************************************************)
(* publish_layers.py: publish all unpublished layers of the configured     *)
(* GeoServer workspaces.  The script is modelled as a sequential state     *)
(* machine (the three nested for-loops of the module body), the helper     *)
(* functions as operators, the GeoServer REST server as a nondeterministic *)
(* environment that answers every request.                                 *)
(*                                                                         *)
(* Python values are tagged records [t, v]:                                *)
(*   str  -> v is the sequence of its characters                           *)
(*   list -> v is the sequence of its items                                *)
(*   dict -> v is a function from keys to values                           *)
(*   None -> v is empty                                                    *)
(* A formatted string "...{}...".format(args) is the record [fmt, args].   *)
(***************************************************************************)
EXTENDS Integers, Sequences, FiniteSets, TLC

VARIABLES
    config,             \* the loaded config.json (line 120)
    layer_template,     \* the module-level template dict (lines 40-45)
    pc,                 \* position of the module body
    wsIdx,              \* position of `for workspace in config['workspaces']`
    stores,             \* `stores` (line 126)
    storeIdx,           \* position of `for store in stores`
    unassigned_layers,  \* `unassigned_layers` (line 131)
    layerIdx,           \* position of `for layer in unassigned_layers`
    response,           \* `response` (line 139)
    error,              \* the uncaught exception that ended the run, if any
    sent,               \* every HTTP request handed to requests.request, in order
    received,           \* what the server answered to the GET requests, in order
    printed,            \* the lines the latest step wrote to the console
    call,               \* unit harness: the call being made
    ret                 \* unit harness: what the call returned or raised

vars == <<config, layer_template, pc, wsIdx, stores, storeIdx, unassigned_layers,
          layerIdx, response, error, sent, received, printed, call, ret>>

(***************************************************************************)
(* Bounds of the model.                                                    *)
(***************************************************************************)
MaxLayers == 2

(***************************************************************************)
(* Python values.                                                          *)
(***************************************************************************)
Str(s) == [t |-> "str", v |-> s]
List(s) == [t |-> "list", v |-> s]
Dict(f) == [t |-> "dict", v |-> f]
Bool(b) == [t |-> "bool", v |-> b]
None == [t |-> "none", v |-> <<>>]

Return(x) == [raised |-> FALSE, val |-> x]
Raise(type, msg) == [raised |-> TRUE, exc |-> [type |-> type, msg |-> msg]]

Format(f, a) == [fmt |-> f, args |-> a]

\* `not x` is TRUE for None, "" and []
Truthy(x) ==
    CASE x.t = "none" -> FALSE
      [] x.t \in {"str", "list"} -> Len(x.v) > 0
      [] x.t = "dict" -> DOMAIN x.v # {}
      [] x.t = "bool" -> x.v

\* x[key] for a string key
GetItem(x, key) ==
    CASE x.t = "dict" ->
            IF key \in DOMAIN x.v THEN Return(x.v[key]) ELSE Raise("KeyError", key)
      [] x.t \in {"str", "list"} -> Raise("TypeError", "indices must be integers")
      [] x.t = "none" -> Raise("TypeError", "object is not subscriptable")

IsSubstring(sub, s) ==
    \E i \in 0..Len(s) :
        /\ i + Len(sub) <= Len(s)
        /\ \A j \in 1..Len(sub) : s[i + j] = sub[j]

\* `key in x`; chars is the key spelt out, for the substring test on a str
Contains(key, chars, x) ==
    CASE x.t = "dict" -> Return(key \in DOMAIN x.v)
      [] x.t = "str" -> Return(IsSubstring(chars, x.v))
      [] x.t = "list" -> Return(\E i \in 1..Len(x.v) : x.v[i] = Str(chars))
      [] x.t = "none" -> Raise("TypeError", "argument is not iterable")

\* the items `for item in x` visits: the items of a list, the characters of a str
Items(x) ==
    CASE x.t = "list" -> x.v
      [] x.t = "str" -> [i \in 1..Len(x.v) |-> Str(<<x.v[i]>>)]

LowerChar(c) ==
    CASE c = "G" -> "g" [] c = "E" -> "e" [] c = "T" -> "t"
      [] c = "P" -> "p" [] c = "O" -> "o" [] c = "S" -> "s"
      [] c = "U" -> "u"
      [] OTHER -> c

\* str.lower()
Lower(s) == [i \in 1..Len(s) |-> LowerChar(s[i])]

(***************************************************************************)
(* JSON.                                                                   *)
(***************************************************************************)
\* json.dumps of a scalar: True is written as the token true, a str is quoted
JsonAtom(x) ==
    CASE x.t = "bool" -> [tok |-> IF x.v THEN "true" ELSE "false", v |-> <<>>]
      [] x.t = "str" -> [tok |-> "string", v |-> x.v]
      [] x.t = "none" -> [tok |-> "null", v |-> <<>>]

TemplateKeys == <<"title", "nativeName", "name", "enabled">>

\* json.dumps({"featureType": layer}): the members in the dict's insertion order
JsonDumps(layer) ==
    [t |-> "json",
     v |-> <<"featureType",
             [i \in 1..Len(TemplateKeys) |->
                 <<TemplateKeys[i], JsonAtom(layer[TemplateKeys[i]])>>]>>]

\* Response bodies of the modelled server.
StoresText0 == "{\"dataStores\":{\"dataStore\":[]}}"
StoresText1 == "{\"dataStores\":{\"dataStore\":[{\"name\":\"s1\"}]}}"
StoresText2 == "{\"dataStores\":{\"dataStore\":[{\"name\":\"s1\"},{\"name\":\"s2\"}]}}"
StoresTextEmpty == "{\"dataStores\":\"\"}"
StoresTextNoName == "{\"dataStores\":{\"dataStore\":[{\"href\":\"u\"}]}}"
LayersTextNone == "{\"list\":\"\"}"
LayersTextNoKey == "{\"list\":{}}"
LayersTextSingle == "{\"list\":{\"string\":\"ab\"}}"
LayersText1 == "{\"list\":{\"string\":[\"a\"]}}"
LayersText2 == "{\"list\":{\"string\":[\"a\",\"b\"]}}"
LayersText3 == "{\"list\":{\"string\":[\"a\",\"b\",\"c\"]}}"
EmptyObjectText == "{}"
NotFoundText == "No such workspace"
HtmlText == "<html>Internal Server Error</html>"

JsonTexts ==
    {StoresText0, StoresText1, StoresText2, StoresTextEmpty, StoresTextNoName,
     LayersTextNone, LayersTextNoKey, LayersTextSingle, LayersText1, LayersText2,
     LayersText3, EmptyObjectText}

S1 == Str(<<"s", "1">>)
S2 == Str(<<"s", "2">>)
LayerA == Str(<<"a">>)
LayerB == Str(<<"b">>)
LayerC == Str(<<"c">>)
LayerAB == Str(<<"a", "b">>)

\* json.loads on the bodies above; any other text is not JSON
JsonLoads(text) ==
    CASE text = StoresText0 ->
            Return(Dict([dataStores |-> Dict([dataStore |-> List(<<>>)])]))
      [] text = StoresText1 ->
            Return(Dict([dataStores |->
                Dict([dataStore |-> List(<<Dict([name |-> S1])>>)])]))
      [] text = StoresText2 ->
            Return(Dict([dataStores |->
                Dict([dataStore |-> List(<<Dict([name |-> S1]), Dict([name |-> S2])>>)])]))
      [] text = StoresTextEmpty -> Return(Dict([dataStores |-> Str(<<>>)]))
      [] text = StoresTextNoName ->
            Return(Dict([dataStores |->
                Dict([dataStore |-> List(<<Dict([href |-> Str(<<"u">>)])>>)])]))
      [] text = LayersTextNone -> Return(Dict([list |-> Str(<<>>)]))
      [] text = LayersTextNoKey -> Return(Dict([list |-> Dict(<<>>)]))
      [] text = LayersTextSingle -> Return(Dict([list |-> Dict([string |-> LayerAB])]))
      [] text = LayersText1 ->
            Return(Dict([list |-> Dict([string |-> List(<<LayerA>>)])]))
      [] text = LayersText2 ->
            Return(Dict([list |-> Dict([string |-> List(<<LayerA, LayerB>>)])]))
      [] text = LayersText3 ->
            Return(Dict([list |-> Dict([string |-> List(<<LayerA, LayerB, LayerC>>)])]))
      [] text = EmptyObjectText -> Return(Dict(<<>>))
      [] OTHER -> Raise("JSONDecodeError", text)

(***************************************************************************)
(* The helper functions of the script.                                     *)
(***************************************************************************)
\* copy.deepcopy: the copy shares nothing with the original
deepcopy(x) == x

\* make_layer without the deepcopy: the template itself is filled in
make_layer_shared(name, title, nativeName) ==
    LET native == IF ~Truthy(nativeName) THEN name ELSE nativeName
        layer == [layer_template EXCEPT
                    !.nativeName = native, !.name = name, !.title = title]
    IN  [ret |-> JsonDumps(layer), template |-> layer]

make_layer(name, title, nativeName) ==
    LET layer0 == deepcopy(layer_template)
        native == IF ~Truthy(nativeName) THEN name ELSE nativeName
        layer == [layer0 EXCEPT !.nativeName = native, !.name = name, !.title = title]
    IN  [ret |-> JsonDumps(layer), template |-> layer_template]

\* What the network does with one request: a response, or no response at all.
Resp(code, text) == [kind |-> "response", status_code |-> code, text |-> text]
NetError == [kind |-> "error", status_code |-> 0, text |-> ""]

Headers ==
    [Accept |-> "application/json",
     ContentType |-> "application/json",
     Authorization |-> config.geoserver.auth]

Request(method, url, params, data) ==
    [method |-> method, url |-> url, headers |-> Headers, params |-> params, data |-> data]

\* Dispatch with `else` in place of the `elif`: every method but GET is a POST
DispatchElsePost(type) ==
    IF Lower(type) = <<"g", "e", "t">> THEN "GET" ELSE "POST"

\* lines 70, 77, 81: the branch api_request takes for a method name
Dispatch(type) ==
    CASE Lower(type) = <<"g", "e", "t">> -> "GET"
      [] Lower(type) = <<"p", "o", "s", "t">> -> "POST"
      [] OTHER -> "invalid"

\* The error without the response in it
NotJsonErrorBare(net) ==
    Raise("Exception", Format("Response was not JSON", <<>>))

\* line 76: the error raised for a GET body that is not JSON
NotJsonError(net) ==
    Raise("Exception",
          Format("Response (code {}) was not JSON: {}", <<net.status_code, net.text>>))

\* requests.request; net is what the network does with the request
api_request(path, type, params, data, net) ==
    LET url == Format("https://{}{}{}",
                      <<config.geoserver.host, config.geoserver.prefix, path>>)
    IN  IF Dispatch(type) = "GET"
        THEN [sent |-> <<Request("GET", url, params, None)>>,
              res |-> IF net.kind = "error"
                      THEN Raise("ConnectionError", net.text)
                      ELSE IF JsonLoads(net.text).raised
                           THEN NotJsonError(net)
                           ELSE JsonLoads(net.text)]
        ELSE IF Dispatch(type) = "POST"
        THEN [sent |-> <<Request("POST", url, None, data)>>,
              res |-> IF net.kind = "error"
                      THEN Raise("ConnectionError", net.text)
                      ELSE Return(net)]
        ELSE [sent |-> <<>>, res |-> Raise("ValueError", "Invalid request type")]

DefaultType == <<"G", "E", "T">>

publish_featuretype(workspace, store, definition_json, net) ==
    LET path == Format("/workspaces/{}/datastores/{}/featuretypes", <<workspace, store>>)
    IN  api_request(path, <<"p", "o", "s", "t">>, None, definition_json, net)

get_stores_for_workspace(workspace, net) ==
    LET path == Format("/workspaces/{}/datastores", <<workspace>>)
        r == api_request(path, DefaultType, None, None, net)
        outer == GetItem(r.res.val, "dataStores")
    IN  [sent |-> r.sent,
         res |-> IF r.res.raised THEN r.res
                 ELSE IF outer.raised THEN outer
                 ELSE GetItem(outer.val, "dataStore")]

Available == Str(<<"a", "v", "a", "i", "l", "a", "b", "l", "e">>)
StringKey == <<"s", "t", "r", "i", "n", "g">>

\* get_unassigned_layers reading the list key with a default: a response
\* without it counts as a store without unassigned layers
get_unassigned_layers_lenient(workspace, store, net) ==
    LET path == Format("/workspaces/{}/datastores/{}/featuretypes", <<workspace, store>>)
        params == Dict([list |-> Available])
        r == api_request(path, DefaultType, params, None, net)
        lst == IF "list" \in DOMAIN r.res.val.v
               THEN GetItem(r.res.val, "list") ELSE Return(Dict(<<>>))
        has == Contains("string", StringKey, lst.val)
    IN  [sent |-> r.sent,
         res |-> IF r.res.raised THEN r.res
                 ELSE IF has.raised THEN has
                 ELSE IF has.val THEN GetItem(lst.val, "string")
                 ELSE Return(List(<<>>))]

get_unassigned_layers(workspace, store, net) ==
    LET path == Format("/workspaces/{}/datastores/{}/featuretypes", <<workspace, store>>)
        params == Dict([list |-> Available])
        r == api_request(path, DefaultType, params, None, net)
        lst == GetItem(r.res.val, "list")
        has == Contains("string", StringKey, lst.val)
    IN  [sent |-> r.sent,
         res |-> IF r.res.raised THEN r.res
                 ELSE IF lst.raised THEN lst
                 ELSE IF has.raised THEN has
                 ELSE IF has.val THEN GetItem(lst.val, "string")
                 ELSE Return(List(<<>>))]

\* map_title without the lookup
map_title_raw(layername) == layername

map_title(layername) ==
    IF layername.v \in DOMAIN config.name_title_map
    THEN config.name_title_map[layername.v]
    ELSE layername

(***************************************************************************)
(* The environment: the configurations the script is started with and the  *)
(* answers the server gives.                                               *)
(***************************************************************************)
Min(a, b) == IF a < b THEN a ELSE b

W1 == Str(<<"w", "1">>)
W2 == Str(<<"w", "2">>)
WorkspaceLists == {<<>>, <<W1>>, <<W1, W2>>}

Geoserver == [host |-> "geoserver.hel.fi", prefix |-> "/geoserver/rest", auth |-> "Basic xx=="]

TitleA == Str(<<"A">>)
TitleAB == Str(<<"T">>)

\* name_title_map of a run: layer a has a title, layers b and c have none
RunTitleMap == (<<"a">> :> TitleA)

\* name_title_map of a single call: empty, one entry, two entries
TitleMaps == {<<>>, RunTitleMap, (<<"a">> :> TitleA) @@ (<<"a", "b">> :> TitleAB)}

Configs(maps) ==
    {[geoserver |-> Geoserver, workspaces |-> w, name_title_map |-> m] :
        w \in WorkspaceLists, m \in maps}

LayersListTexts == <<LayersText1, LayersText2, LayersText3>>

StoresOutcomes ==
    {Resp(200, StoresText0), Resp(200, StoresText1), Resp(200, StoresText2),
     Resp(200, StoresTextEmpty), Resp(200, StoresTextNoName),
     Resp(200, EmptyObjectText), Resp(404, NotFoundText), NetError}

LayersOutcomes ==
    {Resp(200, LayersTextNone), Resp(200, LayersTextNoKey), Resp(200, LayersTextSingle),
     Resp(200, EmptyObjectText), Resp(500, HtmlText), NetError}
    \cup {Resp(200, LayersListTexts[n]) : n \in 1..Min(MaxLayers, Len(LayersListTexts))}

PostOutcomes == {Resp(201, ""), Resp(200, ""), Resp(500, HtmlText), NetError}

NoResponse == [kind |-> "none", status_code |-> 0, text |-> ""]
NoError == [type |-> "none", msg |-> ""]
NoCall == [fn |-> "none", args |-> <<>>, net |-> NoResponse]

LayerTemplate ==
    [title |-> Str(<<"{", "}">>),
     nativeName |-> Str(<<"{", "}">>),
     name |-> Str(<<"{", "}">>),
     enabled |-> Bool(TRUE)]

Join(sep, items) == [sep |-> sep, items |-> items]

(***************************************************************************)
(* The module body (lines 120-143).                                        *)
(***************************************************************************)
RunInit ==
    /\ config \in Configs({RunTitleMap})
    /\ layer_template = LayerTemplate
    /\ pc = "workspace"
    /\ wsIdx = 1
    /\ stores = None
    /\ storeIdx = 1
    /\ unassigned_layers = None
    /\ layerIdx = 1
    /\ response = NoResponse
    /\ error = NoError
    /\ sent = <<>>
    /\ received = <<>>
    /\ printed = <<Format("Checking stores for workspaces: {}",
                          <<Join(", ", config.workspaces)>>),
                   Format("----------------------------------", <<>>)>>
    /\ call = NoCall
    /\ ret = None

workspace == config.workspaces[wsIdx]
store == Items(stores)[storeIdx]
layer == Items(unassigned_layers)[layerIdx]

\* An exception nobody catches ends the run.
Abort(exc, lines) ==
    /\ pc' = "aborted"
    /\ error' = exc
    /\ printed' = lines

\* An except clause for key errors only
CatchesKeyError(exc) == exc.type = "KeyError"

\* line 127: the bare `except:` catches every exception
Catches(exc) == TRUE

\* lines 124-129: the next workspace, its stores listed inside try/except
ScanWorkspace ==
    /\ pc = "workspace"
    /\ wsIdx <= Len(config.workspaces)
    /\ \E net \in StoresOutcomes :
        LET r == get_stores_for_workspace(workspace, net)
        IN  /\ sent' = sent \o r.sent
            /\ received' = Append(received, net)
            /\ IF r.res.raised /\ Catches(r.res.exc)
               THEN /\ printed' = <<Format("No stores found for workspace {}",
                                           <<workspace>>)>>
                    /\ wsIdx' = wsIdx + 1
                    /\ UNCHANGED <<pc, stores, storeIdx, error>>
               ELSE IF r.res.raised
               THEN /\ Abort(r.res.exc, <<>>)
                    /\ UNCHANGED <<wsIdx, stores, storeIdx>>
               ELSE /\ stores' = r.res.val
                    /\ storeIdx' = 1
                    /\ pc' = "store"
                    /\ printed' = <<>>
                    /\ UNCHANGED <<wsIdx, error>>
    /\ UNCHANGED <<config, layer_template, unassigned_layers, layerIdx, response,
                   call, ret>>

\* line 124: the workspaces are exhausted, the script ends
Finish ==
    /\ pc = "workspace"
    /\ wsIdx > Len(config.workspaces)
    /\ pc' = "done"
    /\ printed' = <<>>
    /\ UNCHANGED <<config, layer_template, wsIdx, stores, storeIdx, unassigned_layers,
                   layerIdx, response, error, sent, received, call, ret>>

\* lines 130-135: the next store, its unassigned layers listed and counted
ScanStore ==
    /\ pc = "store"
    /\ storeIdx <= Len(Items(stores))
    /\ LET name == GetItem(store, "name")
       IN  IF name.raised
           THEN /\ Abort(name.exc, <<>>)
                /\ UNCHANGED <<sent, received, unassigned_layers, layerIdx>>
           ELSE \E net \in LayersOutcomes :
                LET r == get_unassigned_layers(workspace, name.val, net)
                IN  /\ sent' = sent \o r.sent
                    /\ received' = Append(received, net)
                    /\ IF r.res.raised
                       THEN /\ Abort(r.res.exc, <<>>)
                            /\ UNCHANGED <<unassigned_layers, layerIdx>>
                       ELSE /\ unassigned_layers' = r.res.val
                            /\ layerIdx' = 1
                            /\ pc' = "layer"
                            /\ printed' =
                                 <<Format("Store {} in {} has {} unassigned layers",
                                          <<name.val, workspace, Len(r.res.val.v)>>)>>
                                 \o (IF Truthy(r.res.val)
                                     THEN <<Format("Publishing them all now...", <<>>)>>
                                     ELSE <<>>)
                            /\ UNCHANGED error
    /\ UNCHANGED <<config, layer_template, wsIdx, stores, storeIdx, response, call, ret>>

\* line 130: the stores of the workspace are exhausted
EndStores ==
    /\ pc = "store"
    /\ storeIdx > Len(Items(stores))
    /\ pc' = "workspace"
    /\ wsIdx' = wsIdx + 1
    /\ printed' = <<>>
    /\ UNCHANGED <<config, layer_template, stores, storeIdx, unassigned_layers,
                   layerIdx, response, error, sent, received, call, ret>>

\* Any 2xx status taken for success
StatusOk2xx(resp) == resp.status_code \in 200..299

\* line 140: the status-code check of a publish
StatusOk(resp) == resp.status_code = 201

\* lines 137-143: the next layer published, OK or FAIL reported
Publish ==
    /\ pc = "layer"
    /\ layerIdx <= Len(Items(unassigned_layers))
    /\ \E net \in PostOutcomes :
        LET made == make_layer(layer, map_title(layer), None)
            r == publish_featuretype(workspace, GetItem(store, "name").val, made.ret, net)
            announce == Format("{}...", <<layer>>)
        IN  /\ layer_template' = made.template
            /\ sent' = sent \o r.sent
            /\ IF r.res.raised
               THEN /\ Abort(r.res.exc, <<announce>>)
                    /\ UNCHANGED <<response, layerIdx>>
               ELSE /\ response' = r.res.val
                    /\ printed' = <<announce,
                                    IF StatusOk(r.res.val)
                                    THEN Format("OK", <<>>)
                                    ELSE Format("FAIL", <<>>)>>
                    /\ layerIdx' = layerIdx + 1
                    /\ UNCHANGED <<pc, error>>
    /\ UNCHANGED <<config, wsIdx, stores, storeIdx, unassigned_layers, received,
                   call, ret>>

\* The store listed again after its layers have been published
EndLayersRescan ==
    /\ pc = "layer"
    /\ layerIdx > Len(Items(unassigned_layers))
    /\ pc' = "store"
    /\ printed' = <<>>
    /\ UNCHANGED <<config, layer_template, wsIdx, stores, storeIdx, unassigned_layers,
                   layerIdx, response, error, sent, received, call, ret>>

\* line 137: the layers of the store are exhausted
EndLayers ==
    /\ pc = "layer"
    /\ layerIdx > Len(Items(unassigned_layers))
    /\ pc' = "store"
    /\ storeIdx' = storeIdx + 1
    /\ printed' = <<>>
    /\ UNCHANGED <<config, layer_template, wsIdx, stores, unassigned_layers, layerIdx,
                   response, error, sent, received, call, ret>>

(***************************************************************************)
(* Single calls of the helper functions, with arguments the module body    *)
(* never passes: a behaviour is either a run of the script or one call.    *)
(***************************************************************************)
Methods ==
    {<<"G", "E", "T">>, <<"g", "e", "t">>, <<"G", "e", "t">>,
     <<"P", "O", "S", "T">>, <<"p", "o", "s", "t">>, <<"P", "o", "s", "T">>,
     <<"p", "u", "t">>, <<"P", "U", "T">>, <<"g", "e", "t", "s">>, <<"p", "o">>, <<>>}

CallOutcomes == StoresOutcomes \cup LayersOutcomes \cup PostOutcomes

CallNames == {LayerA, LayerB, LayerAB}
CallTitles == {TitleA, LayerB}
CallNativeNames == {None, Str(<<>>), Str(<<"t", "b", "l">>)}

CallPath == Format("/workspaces/{}/datastores", <<W1>>)

CallInit ==
    /\ config \in Configs(TitleMaps)
    /\ layer_template = LayerTemplate
    /\ pc = "call"
    /\ wsIdx = 1
    /\ stores = None
    /\ storeIdx = 1
    /\ unassigned_layers = None
    /\ layerIdx = 1
    /\ response = NoResponse
    /\ error = NoError
    /\ sent = <<>>
    /\ received = <<>>
    /\ printed = <<>>
    /\ call = NoCall
    /\ ret = None

Init == RunInit \/ CallInit

Returned ==
    /\ pc' = "returned"
    /\ UNCHANGED <<config, wsIdx, stores, storeIdx, unassigned_layers, layerIdx,
                   response, error, received, printed>>

CallApiRequest ==
    /\ pc = "call"
    /\ \E type \in Methods, net \in CallOutcomes, data \in {None, JsonDumps(LayerTemplate)} :
        LET r == api_request(CallPath, type, None, data, net)
        IN  /\ call' = [fn |-> "api_request", args |-> <<CallPath, type, None, data>>,
                        net |-> net]
            /\ ret' = r.res
            /\ sent' = r.sent
    /\ UNCHANGED layer_template
    /\ Returned

CallGetUnassignedLayers ==
    /\ pc = "call"
    /\ \E net \in LayersOutcomes :
        LET r == get_unassigned_layers(W1, S1, net)
        IN  /\ call' = [fn |-> "get_unassigned_layers", args |-> <<W1, S1>>, net |-> net]
            /\ ret' = r.res
            /\ sent' = r.sent
    /\ UNCHANGED layer_template
    /\ Returned

CallMapTitle ==
    /\ pc = "call"
    /\ \E layername \in CallNames :
        /\ call' = [fn |-> "map_title", args |-> <<layername>>, net |-> NoResponse]
        /\ ret' = Return(map_title(layername))
    /\ UNCHANGED <<layer_template, sent>>
    /\ Returned

CallMakeLayer ==
    /\ pc = "call"
    /\ \E name \in CallNames, title \in CallTitles, nativeName \in CallNativeNames :
        LET made == make_layer(name, title, nativeName)
        IN  /\ call' = [fn |-> "make_layer", args |-> <<name, title, nativeName>>,
                        net |-> NoResponse]
            /\ ret' = Return(made.ret)
            /\ layer_template' = made.template
    /\ UNCHANGED sent
    /\ Returned

Next ==
    \/ ScanWorkspace
    \/ Finish
    \/ ScanStore
    \/ EndStores
    \/ Publish
    \/ EndLayers
    \/ CallApiRequest
    \/ CallGetUnassignedLayers
    \/ CallMapTitle
    \/ CallMakeLayer

Spec == Init /\ [][Next]_vars

\* Every HTTP call returns and the interpreter keeps running the script.
FairSpec == Spec /\ WF_vars(Next)

(***************************************************************************)
(* Properties of the helper functions.                                     *)
(***************************************************************************)
Called(fn) == pc = "returned" /\ call.fn = fn

InRun == pc \in {"workspace", "store", "layer", "done", "aborted"}

\* The value under list.string of an unassigned-layers response body.
ListString(text) == JsonLoads(text).val.v.list.v.string

HasListString(text) ==
    /\ ~JsonLoads(text).raised
    /\ "list" \in DOMAIN JsonLoads(text).val.v
    /\ JsonLoads(text).val.v.list.t = "dict"
    /\ "string" \in DOMAIN JsonLoads(text).val.v.list.v

LacksListString(text) ==
    /\ ~JsonLoads(text).raised
    /\ "list" \in DOMAIN JsonLoads(text).val.v
    /\ ~HasListString(text)

\* C2: get_unassigned_layers turns each of the three response shapes into a
\* sequence of layer names: a single string under list.string becomes the
\* one-element sequence holding it, a list is returned as it is, and a
\* response without the string key gives the empty sequence.
C2_NormalizesAllShapes ==
    (Called("get_unassigned_layers") /\ call.net.kind = "response") =>
        /\ (HasListString(call.net.text) /\ ListString(call.net.text).t = "str") =>
                ret = Return(List(<<ListString(call.net.text)>>))
        /\ (HasListString(call.net.text) /\ ListString(call.net.text).t = "list") =>
                ret = Return(ListString(call.net.text))
        /\ LacksListString(call.net.text) => ret = Return(List(<<>>))

\* The method names api_request accepts: GET or POST in any mixture of cases.
SpellsGet(type) ==
    /\ Len(type) = 3
    /\ type[1] \in {"g", "G"} /\ type[2] \in {"e", "E"} /\ type[3] \in {"t", "T"}

SpellsPost(type) ==
    /\ Len(type) = 4
    /\ type[1] \in {"p", "P"} /\ type[2] \in {"o", "O"}
    /\ type[3] \in {"s", "S"} /\ type[4] \in {"t", "T"}

\* C6: api_request with a method other than GET or POST (in any case) raises
\* ValueError and sends nothing; a request is sent only for GET or POST.
C6_InvalidMethodRejected ==
    Called("api_request") =>
        /\ ~(SpellsGet(call.args[2]) \/ SpellsPost(call.args[2])) =>
                /\ ret.raised
                /\ ret.exc.type = "ValueError"
                /\ sent = <<>>
        /\ sent # <<>> => (SpellsGet(call.args[2]) \/ SpellsPost(call.args[2]))

C6_Witness ==
    /\ Called("api_request")
    /\ call.args[2] = <<"P", "U", "T">>
    /\ ret.raised
    /\ sent = <<>>

\* C7: for a GET that is answered, api_request returns the parsed body when
\* the body is JSON and otherwise raises an error carrying the status code
\* and the raw body; for a POST that is answered it returns the response
\* object itself, whatever its status and body.
C7_GetParsedPostRaw ==
    (Called("api_request") /\ call.net.kind = "response") =>
        /\ (SpellsGet(call.args[2]) /\ call.net.text \in JsonTexts) =>
                ret = JsonLoads(call.net.text)
        /\ (SpellsGet(call.args[2]) /\ call.net.text \notin JsonTexts) =>
                /\ ret.raised
                /\ ret.exc.type = "Exception"
                /\ ret.exc.msg.args = <<call.net.status_code, call.net.text>>
        /\ SpellsPost(call.args[2]) => (~ret.raised /\ ret.val = call.net)

C7_Witness ==
    /\ Called("api_request")
    /\ SpellsGet(call.args[2])
    /\ call.net = Resp(404, NotFoundText)
    /\ ret.raised

\* C8: map_title gives the mapped title of a name that is a key of
\* name_title_map, the name itself of any other name, and the configuration
\* is never modified.
C8_MapTitle ==
    /\ [](Called("map_title") =>
            IF call.args[1].v \in DOMAIN config.name_title_map
            THEN ret = Return(config.name_title_map[call.args[1].v])
            ELSE ret = Return(call.args[1]))
    /\ [][config' = config]_vars

C8_Witness ==
    /\ Called("map_title")
    /\ call.args[1] = LayerAB
    /\ LayerAB.v \in DOMAIN config.name_title_map
    /\ ret = Return(TitleAB)

\* The member of a serialised feature-type definition with the given key.
Member(json, key) ==
    LET members == json.v[2]
        i == CHOOSE k \in 1..Len(members) : members[k][1] = key
    IN  members[i][2]

IsDefinition(json) ==
    /\ json.t = "json"
    /\ json.v[1] = "featureType"
    /\ \A key \in {"title", "nativeName", "name", "enabled"} :
        \E k \in 1..Len(json.v[2]) : json.v[2][k][1] = key

PostsSent == SelectSeq(sent, LAMBDA q : q.method = "POST")

\* C9 as stated: the definition has nativeName equal to the supplied native
\* name whenever one is supplied, and equal to name only when none is.
C9_NativeNameAsSupplied ==
    Called("make_layer") =>
        Member(ret.val, "nativeName") =
            JsonAtom(IF call.args[3] = None THEN call.args[1] ELSE call.args[3])

\* C9 amended: every definition make_layer builds has enabled = true, the
\* given name and title, and nativeName equal to name when no native name or
\* an empty one is supplied and equal to the supplied one otherwise; every
\* definition the script posts has nativeName = name and enabled = true;
\* layer_template is never altered.
C9_Definition ==
    /\ Called("make_layer") =>
        /\ IsDefinition(ret.val)
        /\ Member(ret.val, "enabled") = JsonAtom(Bool(TRUE))
        /\ Member(ret.val, "name") = JsonAtom(call.args[1])
        /\ Member(ret.val, "title") = JsonAtom(call.args[2])
        /\ Member(ret.val, "nativeName") =
            JsonAtom(IF call.args[3] = None \/ call.args[3] = Str(<<>>)
                     THEN call.args[1] ELSE call.args[3])
    /\ InRun => \A i \in 1..Len(PostsSent) :
        /\ IsDefinition(PostsSent[i].data)
        /\ Member(PostsSent[i].data, "enabled") = JsonAtom(Bool(TRUE))
        /\ Member(PostsSent[i].data, "nativeName") = Member(PostsSent[i].data, "name")
    /\ layer_template = LayerTemplate

C9_Witness ==
    /\ Called("make_layer")
    /\ call.args[3] = Str(<<"t", "b", "l">>)
    /\ Member(ret.val, "nativeName") = JsonAtom(Str(<<"t", "b", "l">>))

(***************************************************************************)
(* Properties of a run.                                                    *)
(***************************************************************************)
GetsSent == SelectSeq(sent, LAMBDA q : q.method = "GET")

StoresPath(w) == Format("/workspaces/{}/datastores", <<w>>)
LayersPath(w, s) == Format("/workspaces/{}/datastores/{}/featuretypes", <<w, s>>)

PathOf(q) == q.url.args[3]

\* The layers a good unassigned-layers response lists, as the server means it.
ListedLayers(text) ==
    IF HasListString(text)
    THEN IF ListString(text).t = "str" THEN <<ListString(text)>> ELSE ListString(text).v
    ELSE <<>>

\* The stores a good datastore listing names.
ListedStores(text) ==
    LET items == JsonLoads(text).val.v.dataStores.v.dataStore.v
    IN  [i \in 1..Len(items) |-> items[i].v.name]

GoodStoresTexts == {StoresText0, StoresText1, StoresText2}
GoodLayersTexts ==
    {LayersTextNone, LayersTextNoKey, LayersTextSingle, LayersText1, LayersText2,
     LayersText3}

TitleOf(n) ==
    IF n.v \in DOMAIN config.name_title_map THEN config.name_title_map[n.v] ELSE n

DefinitionOf(n) ==
    JsonDumps([title |-> TitleOf(n), nativeName |-> n, name |-> n, enabled |-> Bool(TRUE)])

\* The publish POSTs of one store: one per layer, in the listed order.
StorePosts(w, s, layers) ==
    [i \in 1..Len(layers) |-> <<LayersPath(w, s), DefinitionOf(layers[i])>>]

RECURSIVE StoresPosts(_, _, _, _)
\* The POSTs of the stores names[k..] of workspace w, whose layer listings are recv[k..].
StoresPosts(w, names, recv, k) ==
    IF k > Len(names) THEN <<>>
    ELSE StorePosts(w, names[k], ListedLayers(recv[k].text))
            \o StoresPosts(w, names, recv, k + 1)

RECURSIVE Flattened(_, _)
\* The POSTs of the workspaces ws, whose answers, in order, are recv.
Flattened(ws, recv) ==
    IF ws = <<>> THEN <<>>
    ELSE LET names == ListedStores(recv[1].text)
         IN  StoresPosts(ws[1], names, SubSeq(recv, 2, Len(names) + 1), 1)
                \o Flattened(Tail(ws), SubSeq(recv, Len(names) + 2, Len(recv)))

NoCallFailed ==
    /\ pc = "done"
    /\ \A k \in 1..Len(received) :
        /\ received[k].kind = "response"
        /\ IF PathOf(GetsSent[k]).fmt = "/workspaces/{}/datastores"
           THEN received[k].text \in GoodStoresTexts
           ELSE received[k].text \in GoodLayersTexts

\* C1: in a run where no call fails, the publish POSTs are exactly the
\* flattening of discovery: per workspace in configured order, per store in
\* listed order, per unassigned layer in listed order, one POST to the
\* store's featuretypes path carrying that layer's name and its title.
C1_PostsAreFlattenedDiscovery ==
    NoCallFailed =>
        [i \in 1..Len(PostsSent) |-> <<PathOf(PostsSent[i]), PostsSent[i].data>>]
            = Flattened(config.workspaces, received)

C1_Witness == NoCallFailed /\ Len(PostsSent) >= 3

Last(q) == q[Len(q)]

\* A datastore listing that cannot be used: no answer, a body that is not
\* JSON, or a body without dataStores.dataStore.
ListingFails(resp) ==
    \/ resp.kind = "error"
    \/ resp.text \notin JsonTexts
    \/ "dataStores" \notin DOMAIN JsonLoads(resp.text).val.v
    \/ JsonLoads(resp.text).val.v.dataStores.t # "dict"
    \/ "dataStore" \notin DOMAIN JsonLoads(resp.text).val.v.dataStores.v

IsListing(q) == PathOf(q).fmt = "/workspaces/{}/datastores"
IsFeatureTypes(q) == PathOf(q).fmt = "/workspaces/{}/datastores/{}/featuretypes"

\* C3: when the datastore listing of a workspace fails, whatever the reason,
\* the script prints the "No stores found" notice for that workspace, sends
\* no featuretypes request (GET or POST) for it, and goes on with the next
\* configured workspace; the run is not aborted.
C3_FailedListingSkipsWorkspace ==
    /\ [][(pc = "workspace" /\ Len(received') = Len(received) + 1
            /\ ListingFails(Last(received'))) =>
                /\ printed' = <<Format("No stores found for workspace {}", <<workspace>>)>>
                /\ sent' = Append(sent, Last(sent'))
                /\ PathOf(Last(sent')) = StoresPath(workspace)
                /\ pc' = "workspace"
                /\ wsIdx' = wsIdx + 1
                /\ error' = NoError]_vars
    /\ [](InRun =>
            \A k \in 1..Len(received) :
                (IsListing(GetsSent[k]) /\ ListingFails(received[k])) =>
                    \A i \in 1..Len(sent) :
                        IsFeatureTypes(sent[i]) =>
                            PathOf(sent[i]).args[1] # PathOf(GetsSent[k]).args[1])

C3_Witness ==
    /\ pc = "done"
    /\ Len(config.workspaces) = 2
    /\ received[1] = Resp(404, NotFoundText)
    /\ Len(PostsSent) >= 1

\* C4: a publish that is answered is reported OK exactly when the status
\* code is 201 and FAIL otherwise, and after either report the loop goes on
\* with the next layer: a FAIL changes nothing about what is processed next.
C4_OkIff201AndContinue ==
    [][(pc = "layer" /\ Len(sent') = Len(sent) + 1 /\ error'.type # "ConnectionError") =>
            /\ printed' = <<Format("{}...", <<layer>>),
                            Format(IF response'.status_code = 201 THEN "OK" ELSE "FAIL",
                                   <<>>)>>
            /\ pc' = "layer"
            /\ layerIdx' = layerIdx + 1
            /\ error' = NoError
            /\ UNCHANGED <<wsIdx, stores, storeIdx, unassigned_layers>>]_vars

C4_Witness ==
    /\ pc = "layer"
    /\ response.status_code = 200
    /\ printed = <<Format("{}...", <<LayerA>>), Format("FAIL", <<>>)>>
    /\ layerIdx = 2
    /\ Len(Items(unassigned_layers)) = 2

\* An unassigned-layers answer the script cannot use: no answer, a body that
\* is not JSON, or a body without the list key.
LayersFails(resp) ==
    \/ resp.kind = "error"
    \/ resp.text \notin JsonTexts
    \/ "list" \notin DOMAIN JsonLoads(resp.text).val.v

\* C5: outside the datastore listing nothing is caught: a failed
\* unassigned-layers GET (not JSON, no list key, no answer) or a store entry
\* without a name ends the run with that error, and once the run has ended
\* no further step is taken, so no further GET or POST is sent.
C5_OtherFailuresAbort ==
    [][/\ (pc = "store" /\ Len(received') = Len(received) + 1
            /\ LayersFails(Last(received'))) =>
                (pc' = "aborted" /\ error' # NoError)
       /\ (pc = "store" /\ storeIdx <= Len(Items(stores))
            /\ "name" \notin DOMAIN store.v) =>
                (pc' = "aborted" /\ error'.type = "KeyError" /\ sent' = sent)
       /\ pc # "aborted"]_vars

C5_Witness ==
    /\ pc = "aborted"
    /\ error.type = "KeyError"
    /\ Last(received) = Resp(200, EmptyObjectText)
    /\ IsFeatureTypes(Last(sent))
    /\ wsIdx < Len(config.workspaces)
    /\ storeIdx < Len(Items(stores))

Stopped == pc \in {"done", "aborted", "returned"}

Summary(q) == <<q.method, PathOf(q), q.data>>

\* The requests of the layers a store's answer makes the script publish.
PublishRequests(w, s, net) ==
    LET items == Items(get_unassigned_layers(w, s, net).res.val)
    IN  [i \in 1..Len(items) |->
            <<"POST", LayersPath(w, s), make_layer(items[i], map_title(items[i]), None).ret>>]

RECURSIVE StoresRequests(_, _, _, _)
StoresRequests(w, names, recv, k) ==
    IF k > Len(names) THEN <<>>
    ELSE <<<<"GET", LayersPath(w, names[k]), None>>>>
            \o PublishRequests(w, names[k], recv[k])
            \o StoresRequests(w, names, recv, k + 1)

RECURSIVE RunRequests(_, _)
\* The requests of a completed run over the workspaces ws, as the answers
\* recv to its GETs alone determine them.
RunRequests(ws, recv) ==
    IF ws = <<>> THEN <<>>
    ELSE IF ListingFails(recv[1])
    THEN <<<<"GET", StoresPath(ws[1]), None>>>> \o RunRequests(Tail(ws), Tail(recv))
    ELSE LET names == ListedStores(recv[1].text)
         IN  <<<<"GET", StoresPath(ws[1]), None>>>>
                \o StoresRequests(ws[1], names, SubSeq(recv, 2, Len(names) + 1), 1)
                \o RunRequests(Tail(ws), SubSeq(recv, Len(names) + 2, Len(recv)))

====
